---- MODULE Spec2Model ----
(***************************************************************************)
(* Model of the SideSwap command-line client (src/src/index.ts).           *)
(*                                                                         *)
(* The client is one Node.js process.  Every handler (a WebSocket          *)
(* 'message' callback, a timer callback, the answer to a readline prompt)  *)
(* runs to completion together with the promise continuations it makes     *)
(* runnable, so each action below is one such handler followed by the      *)
(* part of processSwap/main that it resumes, up to the next suspension     *)
(* (a timer, a prompt, or a promise that only a later frame can resolve).  *)
(*                                                                         *)
(* The server and the user are the environment: any frame may arrive with  *)
(* any id at any time while the socket is open, and every prompt may be    *)
(* answered yes or no.  Timers fire in any order.                          *)
(***************************************************************************)
EXTENDS Integers, Sequences, FiniteSets, TLC

\* ------------------------------------------------------------------------
\* Bounds of the model (not program constants)
\* ------------------------------------------------------------------------
MaxPrompts == 1        \* "No balances available" prompts ever opened
MaxSwaps == 2          \* longest swaps list of a GetSwaps response
MaxAmount == 1         \* largest amount in a balance snapshot
MaxAssets == 1         \* most assets listed in a balance snapshot

\* ------------------------------------------------------------------------
\* Program constants
\* ------------------------------------------------------------------------
sendAsset == "DePix"
sendAmount == 1
recvAsset == "L-BTC"
maxAttempts == 10

\* ------------------------------------------------------------------------
\* Value domains of the environment
\* ------------------------------------------------------------------------
Null == "null"
Assets == {"DePix", "L-BTC"}
Addresses == {"addr1", "addr2"}
Txids == {"abc", "xyz"}
QuoteIds == {7, 8}
Statuses == {"NotFound", "Mempool", "Confirmed"}

\* err.text as a sequence of words; String.includes is a contiguous search
QuoteErrorWords == <<"Quote", "error">>
Texts == { <<"Quote", "error">>,
           <<"Server", "Quote", "error", "expired">>,
           <<"quote", "error">>,
           <<"Insufficient", "funds">> }

Snapshots ==
    UNION { [D -> 0..MaxAmount] :
              D \in { S \in SUBSET Assets : Cardinality(S) <= MaxAssets } }
Swap == [txid : Txids, status : Statuses]
SwapLists == UNION { [1..n -> Swap] : n \in 0..MaxSwaps }
Ttls == {30}
Quotes == [quote_id : QuoteIds, ttl : Ttls]

VARIABLES
    requestId,        \* let requestId
    currentAddress,   \* let currentAddress
    balances,         \* let balances
    activeSwaps,      \* const activeSwaps (Map txid -> Swap)
    shouldContinue,   \* let shouldContinue
    connected,        \* the socket is open (ws readyState)
    listeners,        \* once-listeners registered on responseEmitter
    mainPc,           \* position of main()
    pc,               \* position (or outcome) of processSwap()
    quoteData,        \* processSwap: const quoteData
    txid,             \* processSwap: let txid
    swapStatus,       \* processSwap: let swapStatus
    attempts,         \* processSwap: let attempts
    balancePrompts,   \* pending prompts of handleBalancesNotification
    refetchTimers,    \* pending setTimeout(getNewAddress, 1000)
    prompted,         \* number of balance prompts opened so far
    nSent,            \* number of requests handed to sendMessage
    lastSent,         \* the last request handed to sendMessage
    awaitId,          \* id of the request whose response processSwap awaits
    answeredId,       \* id of the last awaited request the server answered
                      \* under that request's id
    droppedAt         \* position of processSwap when the message handler
                      \* last discarded a frame

vars == <<requestId, currentAddress, balances, activeSwaps, shouldContinue,
          connected, listeners, mainPc, pc, quoteData, txid, swapStatus,
          attempts, balancePrompts, refetchTimers, prompted, nSent, lastSent,
          awaitId, answeredId, droppedAt>>

\* the client's own state: module variables, registered listeners, the
\* positions of main and processSwap, pending prompts and timers
program == <<requestId, currentAddress, balances, activeSwaps,
             shouldContinue, connected, listeners, mainPc, pc, quoteData,
             txid, swapStatus, attempts, balancePrompts, refetchTimers>>

\* variables of the swap session (SwapSession of the specification)
session == <<pc, quoteData, txid, swapStatus, attempts>>

NoQuote == [id |-> 0]
NoRequest == [id |-> 0, tag |-> Null, arg |-> Null]

Init ==
    /\ requestId = 1
    /\ currentAddress = Null
    /\ balances = << >>
    /\ activeSwaps = << >>
    /\ shouldContinue = TRUE
    /\ connected = TRUE
    /\ listeners = {}
    /\ mainPc = "delay"
    /\ pc = "notStarted"
    /\ quoteData = NoQuote
    /\ txid = Null
    /\ swapStatus = "NotFound"
    /\ attempts = 0
    /\ balancePrompts = 0
    /\ refetchTimers = 0
    /\ prompted = 0
    /\ nSent = 0
    /\ lastSent = NoRequest
    /\ awaitId = 0
    /\ answeredId = 0
    /\ droppedAt = Null

\* ------------------------------------------------------------------------
\* Pure helpers
\* ------------------------------------------------------------------------

\* a counter that is not advanced after use
NextRequestId_Stuck(r) == r

\* requestId++ : the value the counter takes after a request used it
NextRequestId(r) == r + 1

\* a balance test that is off by one
hasBalanceForAsset_OffByOne(asset, requiredAmount) ==
    LET currentBalance ==
            IF asset \in DOMAIN balances /\ balances[asset] # 0
            THEN balances[asset] ELSE 0
    IN  currentBalance + 1 >= requiredAmount

\* a balance test that accepts the amount of any asset
hasBalanceForAsset_AnyAsset(asset, requiredAmount) ==
    \E a \in DOMAIN balances : balances[a] >= requiredAmount

\* balances[asset] || 0, then >=
hasBalanceForAsset(asset, requiredAmount) ==
    LET currentBalance ==
            IF asset \in DOMAIN balances /\ balances[asset] # 0
            THEN balances[asset] ELSE 0
    IN  currentBalance >= requiredAmount

\* error.err.text.includes('Quote error')
Includes(text, pat) ==
    \E i \in 1..(Len(text) - Len(pat) + 1) :
        SubSeq(text, i, i + Len(pat) - 1) = pat

\* a search that returns the last match instead of the first
FindSwap_Last(swaps, t) ==
    LET hits == { i \in 1..Len(swaps) : swaps[i].txid = t }
    IN  IF hits = {} THEN 0
        ELSE CHOOSE i \in hits : \A j \in hits : i >= j

\* swaps.find(swap => swap.txid === txid): index of the first match, 0 if none
FindSwap(swaps, t) ==
    LET hits == { i \in 1..Len(swaps) : swaps[i].txid = t }
    IN  IF hits = {} THEN 0
        ELSE CHOOSE i \in hits : \A j \in hits : i <= j

\* a quote record that takes its id from the wrong field
QuoteData_Ttl(q) == [id |-> q.ttl]

\* { id: quote.quote_id, ... }: what 'quote_response' hands to processSwap
QuoteData(q) == [id |-> q.quote_id]

\* a set that keeps the entry a key already has
MapSet_KeepOld(map, swap) ==
    [k \in DOMAIN map \cup {swap.txid} |->
        IF k \in DOMAIN map THEN map[k] ELSE swap]

\* activeSwaps.set(swap.txid, swap)
MapSet(map, swap) ==
    [k \in DOMAIN map \cup {swap.txid} |->
        IF k = swap.txid THEN swap ELSE map[k]]

\* for (const swap of swaps) activeSwaps.set(swap.txid, swap)
RECURSIVE SetAll(_, _)
SetAll(map, swaps) ==
    IF swaps = << >> THEN map
    ELSE SetAll(MapSet(map, Head(swaps)), Tail(swaps))

\* sendMessage(ws, {Req: {id: requestId++, req: {tag: arg}}})
Send(tag, arg) ==
    /\ nSent' = nSent + 1
    /\ lastSent' = [id |-> requestId, tag |-> tag, arg |-> arg]
    /\ requestId' = NextRequestId(requestId)

\* processSwap returns; main() resumes and arms the 10 s status timer
Finish(outcome) ==
    /\ pc' = outcome
    /\ mainPc' = "statusTimer"

\* ids a frame may carry: never issued (0), the awaited request, the
\* request answered before it
FrameIds == {0, awaitId, answeredId}

\* ------------------------------------------------------------------------
\* main() and the timers
\* ------------------------------------------------------------------------

\* main: the 1 s start-up delay ends, getNewAddress, arm the 5 s timer
MainDelay ==
    /\ UNCHANGED droppedAt
    /\ mainPc = "delay"
    /\ Send("NewAddress", Null)
    /\ mainPc' = "swapTimer"
    /\ UNCHANGED <<currentAddress, balances, activeSwaps, shouldContinue,
                   connected, listeners, pc, quoteData, txid, swapStatus,
                   attempts, balancePrompts, refetchTimers, prompted,
                   awaitId, answeredId>>

\* main: the 5 s timer fires; processSwap runs up to its first suspension
SwapTimer ==
    /\ UNCHANGED droppedAt
    /\ mainPc = "swapTimer"
    /\ IF ~shouldContinue
       THEN /\ mainPc' = "finished"
            /\ UNCHANGED <<requestId, nSent, lastSent, listeners, pc, awaitId>>
       ELSE IF currentAddress = Null
       THEN /\ Finish("NoAddress")
            /\ UNCHANGED <<requestId, nSent, lastSent, listeners, awaitId>>
       ELSE IF ~hasBalanceForAsset(sendAsset, sendAmount)
       THEN /\ pc' = "askRefetch"
            /\ mainPc' = "inSwap"
            /\ UNCHANGED <<requestId, nSent, lastSent, listeners, awaitId>>
       ELSE \* quotePromise registers both listeners, then getQuote sends
            \* (its own balance test repeats the one just passed)
            /\ listeners' = listeners \cup {"quote_response", "error_response"}
            /\ Send("GetQuote", currentAddress)
            /\ awaitId' = requestId
            /\ pc' = "awaitQuote"
            /\ mainPc' = "inSwap"
    /\ UNCHANGED <<currentAddress, balances, activeSwaps, shouldContinue,
                   connected, quoteData, txid, swapStatus, attempts,
                   balancePrompts, refetchTimers, prompted, answeredId>>

\* a refetch that sends the workflow back to its start
AnswerRefetch_Restart ==
    /\ UNCHANGED droppedAt
    /\ pc = "askRefetch"
    /\ \E shouldRefetch \in BOOLEAN :
          IF shouldRefetch
          THEN /\ Send("NewAddress", Null)
               /\ pc' = "notStarted"
               /\ mainPc' = "swapTimer"
               /\ UNCHANGED shouldContinue
          ELSE /\ shouldContinue' = FALSE
               /\ Finish("Rejected")
               /\ UNCHANGED <<requestId, nSent, lastSent>>
    /\ UNCHANGED <<currentAddress, balances, activeSwaps, connected,
                   listeners, quoteData, txid, swapStatus, attempts,
                   balancePrompts, refetchTimers, prompted, awaitId,
                   answeredId>>

\* processSwap: the user answers 'Would you like to refetch balances?'
AnswerRefetch ==
    /\ UNCHANGED droppedAt
    /\ pc = "askRefetch"
    /\ \E shouldRefetch \in BOOLEAN :
          IF shouldRefetch
          THEN /\ Send("NewAddress", Null)
               /\ Finish("Refetched")
               /\ UNCHANGED shouldContinue
          ELSE /\ shouldContinue' = FALSE
               /\ Finish("Rejected")
               /\ UNCHANGED <<requestId, nSent, lastSent>>
    /\ UNCHANGED <<currentAddress, balances, activeSwaps, connected,
                   listeners, quoteData, txid, swapStatus, attempts,
                   balancePrompts, refetchTimers, prompted, awaitId,
                   answeredId>>

\* processSwap: the user answers 'Do you want to accept this quote?'
AnswerAccept ==
    /\ UNCHANGED droppedAt
    /\ pc = "askAccept"
    /\ \E shouldAccept \in BOOLEAN :
          IF shouldAccept
          THEN /\ listeners' = listeners \cup {"accept_quote_response"}
               /\ Send("AcceptQuote", quoteData.id)
               /\ awaitId' = requestId
               /\ pc' = "awaitAccept"
               /\ UNCHANGED mainPc
          ELSE /\ Finish("Rejected")
               /\ UNCHANGED <<requestId, nSent, lastSent, listeners, awaitId>>
    /\ UNCHANGED <<currentAddress, balances, activeSwaps, shouldContinue,
                   connected, quoteData, txid, swapStatus, attempts,
                   balancePrompts, refetchTimers, prompted, answeredId>>

\* a poll that goes out with no listener registered for its response
PollTimer_Unheard ==
    /\ UNCHANGED droppedAt
    /\ pc = "pollSleep"
    /\ Send("GetSwaps", Null)
    /\ awaitId' = requestId
    /\ pc' = "awaitSwaps"
    /\ UNCHANGED <<currentAddress, balances, activeSwaps, shouldContinue,
                   connected, listeners, mainPc, quoteData, txid, swapStatus,
                   attempts, balancePrompts, refetchTimers, prompted,
                   answeredId>>

\* processSwap: the 5 s poll delay ends; register the listener, getSwaps
PollTimer ==
    /\ UNCHANGED droppedAt
    /\ pc = "pollSleep"
    /\ listeners' = listeners \cup {"swaps_response"}
    /\ Send("GetSwaps", Null)
    /\ awaitId' = requestId
    /\ pc' = "awaitSwaps"
    /\ UNCHANGED <<currentAddress, balances, activeSwaps, shouldContinue,
                   connected, mainPc, quoteData, txid, swapStatus, attempts,
                   balancePrompts, refetchTimers, prompted, answeredId>>

\* main: the 10 s timer armed after processSwap fires
StatusTimer ==
    /\ UNCHANGED droppedAt
    /\ mainPc = "statusTimer"
    /\ mainPc' = "finished"
    /\ IF shouldContinue
       THEN Send("GetSwaps", Null)
       ELSE UNCHANGED <<requestId, nSent, lastSent>>
    /\ UNCHANGED <<currentAddress, balances, activeSwaps, shouldContinue,
                   connected, listeners, pc, quoteData, txid, swapStatus,
                   attempts, balancePrompts, refetchTimers, prompted,
                   awaitId, answeredId>>

\* handleBalancesNotification: the user answers 'No balances available...'
AnswerBalancePrompt ==
    /\ UNCHANGED droppedAt
    /\ balancePrompts > 0
    /\ balancePrompts' = balancePrompts - 1
    /\ \E shouldRefetch \in BOOLEAN :
          IF shouldRefetch
          THEN /\ refetchTimers' = refetchTimers + 1
               /\ UNCHANGED shouldContinue
          ELSE /\ shouldContinue' = FALSE
               /\ UNCHANGED refetchTimers
    /\ UNCHANGED <<requestId, currentAddress, balances, activeSwaps,
                   connected, listeners, mainPc, pc, quoteData, txid,
                   swapStatus, attempts, prompted, nSent, lastSent, awaitId,
                   answeredId>>

\* handleBalancesNotification: the 1 s refetch timer fires
RefetchTimer ==
    /\ UNCHANGED droppedAt
    /\ refetchTimers > 0
    /\ refetchTimers' = refetchTimers - 1
    /\ Send("NewAddress", Null)
    /\ UNCHANGED <<currentAddress, balances, activeSwaps, shouldContinue,
                   connected, listeners, mainPc, pc, quoteData, txid,
                   swapStatus, attempts, balancePrompts, prompted, awaitId,
                   answeredId>>

\* ws 'close' / 'error': the handlers only log
Disconnect ==
    /\ UNCHANGED droppedAt
    /\ connected
    /\ connected' = FALSE
    /\ UNCHANGED <<requestId, currentAddress, balances, activeSwaps,
                   shouldContinue, listeners, mainPc, pc, quoteData, txid,
                   swapStatus, attempts, balancePrompts, refetchTimers,
                   prompted, nSent, lastSent, awaitId, answeredId>>

\* ------------------------------------------------------------------------
\* ws 'message' -> handleMessage, one action per recognised frame
\* ------------------------------------------------------------------------

\* a handler that gives up the request processSwap is waiting on
RecvBalances_Abandons(b) ==
    /\ UNCHANGED droppedAt
    /\ connected
    /\ balances' = b
    /\ IF DOMAIN b = {}
       THEN /\ prompted < MaxPrompts
            /\ prompted' = prompted + 1
            /\ balancePrompts' = balancePrompts + 1
       ELSE UNCHANGED <<prompted, balancePrompts>>
    /\ IF pc \in {"awaitQuote", "awaitAccept", "awaitSwaps"}
       THEN /\ listeners' = {}
            /\ awaitId' = 0
            /\ Finish("Failed")
       ELSE UNCHANGED <<listeners, awaitId, pc, mainPc>>
    /\ UNCHANGED <<requestId, currentAddress, activeSwaps, shouldContinue,
                   connected, quoteData, txid, swapStatus, attempts,
                   refetchTimers, nSent, lastSent, answeredId>>

\* a handler that merges the notification into the stored snapshot
RecvBalances_Merge(b) ==
    /\ UNCHANGED droppedAt
    /\ connected
    /\ balances' = [a \in DOMAIN balances \cup DOMAIN b |->
                       IF a \in DOMAIN b THEN b[a] ELSE balances[a]]
    /\ IF DOMAIN b = {}
       THEN /\ prompted < MaxPrompts
            /\ prompted' = prompted + 1
            /\ balancePrompts' = balancePrompts + 1
       ELSE UNCHANGED <<prompted, balancePrompts>>
    /\ UNCHANGED <<requestId, currentAddress, activeSwaps, shouldContinue,
                   connected, listeners, mainPc, pc, quoteData, txid,
                   swapStatus, attempts, refetchTimers, nSent, lastSent, awaitId,
                   answeredId>>

\* {"Notif": {"notif": {"Balances": {"balances": b}}}}
RecvBalances(b) ==
    /\ UNCHANGED droppedAt
    /\ connected
    /\ balances' = b
    /\ IF DOMAIN b = {}
       THEN /\ prompted < MaxPrompts
            /\ prompted' = prompted + 1
            /\ balancePrompts' = balancePrompts + 1
       ELSE UNCHANGED <<prompted, balancePrompts>>
    /\ UNCHANGED <<requestId, currentAddress, activeSwaps, shouldContinue,
                   connected, listeners, mainPc, pc, quoteData, txid,
                   swapStatus, attempts, refetchTimers, nSent, lastSent, awaitId,
                   answeredId>>

\* {"Resp": {"id": id, "resp": {"NewAddress": {"address": address}}}}
RecvNewAddress(id, address) ==
    /\ UNCHANGED droppedAt
    /\ connected
    /\ currentAddress' = address
    /\ UNCHANGED <<requestId, balances, activeSwaps, shouldContinue,
                   connected, listeners, mainPc, pc, quoteData, txid,
                   swapStatus, attempts, balancePrompts, refetchTimers,
                   prompted, nSent, lastSent, awaitId, answeredId>>

\* the server replies under id 'id'; 'awaited' says that processSwap awaits
\* a request this kind of frame answers: note the awaited request as answered
\* when the frame carries its id
Replied(id, awaited) ==
    answeredId' = IF awaited /\ id = awaitId THEN awaitId ELSE answeredId

\* {"Resp": {"id": id, "resp": {"GetQuote": q}}}
\* emit('quote_response'); quotePromise resolves; processSwap asks the user
RecvGetQuote(id, q) ==
    /\ UNCHANGED droppedAt
    /\ connected
    /\ listeners' = listeners \ {"quote_response"}
    /\ IF "quote_response" \in listeners /\ pc = "awaitQuote"
       THEN /\ quoteData' = QuoteData(q)
            /\ pc' = "askAccept"
            /\ awaitId' = 0
       ELSE UNCHANGED <<quoteData, pc, awaitId>>
    /\ Replied(id, pc = "awaitQuote")
    /\ UNCHANGED <<requestId, currentAddress, balances, activeSwaps,
                   shouldContinue, connected, mainPc, txid, swapStatus,
                   attempts, balancePrompts, refetchTimers, prompted, nSent, lastSent>>

\* {"Resp": {"id": id, "resp": {"AcceptQuote": {"txid": t}}}}
\* emit('accept_quote_response'); acceptPromise resolves; the loop is entered
RecvAcceptQuote(id, t) ==
    /\ UNCHANGED droppedAt
    /\ connected
    /\ listeners' = listeners \ {"accept_quote_response"}
    /\ IF "accept_quote_response" \in listeners
       THEN /\ txid' = t
            /\ swapStatus' = "NotFound"
            /\ attempts' = 0
            /\ pc' = "pollSleep"
            /\ awaitId' = 0
       ELSE UNCHANGED <<txid, swapStatus, attempts, pc, awaitId>>
    /\ Replied(id, pc = "awaitAccept")
    /\ UNCHANGED <<requestId, currentAddress, balances, activeSwaps,
                   shouldContinue, connected, mainPc, quoteData,
                   balancePrompts, refetchTimers, prompted, nSent, lastSent>>

\* processSwap: the body of the polling loop after 'await swapsPromise'
PollStep(swaps) ==
    LET i == FindSwap(swaps, txid)
        found == i # 0
    IN  IF found /\ swaps[i].status = "Confirmed"
        THEN /\ swapStatus' = "Confirmed"
             /\ UNCHANGED attempts
             /\ Finish("Confirmed")
        ELSE /\ swapStatus' = IF found THEN swaps[i].status ELSE swapStatus
             /\ attempts' = attempts + 1
             /\ IF attempts + 1 < maxAttempts
                THEN /\ pc' = "pollSleep"
                     /\ UNCHANGED mainPc
                ELSE Finish("TimedOut")

\* {"Resp": {"id": id, "resp": {"GetSwaps": {"swaps": swaps}}}}
RecvGetSwaps(id, swaps) ==
    /\ UNCHANGED droppedAt
    /\ connected
    /\ IF Len(swaps) = 0
       THEN UNCHANGED <<activeSwaps, listeners, pc, mainPc, swapStatus,
                        attempts, awaitId>>
       ELSE /\ activeSwaps' = SetAll(activeSwaps, swaps)
            /\ listeners' = listeners \ {"swaps_response"}
            /\ IF "swaps_response" \in listeners
               THEN /\ PollStep(swaps)
                    /\ awaitId' = 0
               ELSE UNCHANGED <<pc, mainPc, swapStatus, attempts, awaitId>>
    /\ Replied(id, pc = "awaitSwaps")
    /\ UNCHANGED <<requestId, currentAddress, balances, shouldContinue,
                   connected, quoteData, txid, balancePrompts,
                   refetchTimers, prompted, nSent, lastSent>>

\* {"Error": {"id": id, "err": {"text": text, ...}}}
\* emit('error_response'): the once-listener of quotePromise, if still there
RecvError(id, text) ==
    /\ UNCHANGED droppedAt
    /\ connected
    /\ listeners' = listeners \ {"error_response"}
    /\ IF /\ "error_response" \in listeners
          /\ Includes(text, QuoteErrorWords)
          /\ pc = "awaitQuote"
       THEN /\ Finish("Failed")
            /\ awaitId' = 0
       ELSE UNCHANGED <<pc, mainPc, awaitId>>
    /\ Replied(id, pc \in {"awaitQuote", "awaitAccept", "awaitSwaps"})
    /\ UNCHANGED <<requestId, currentAddress, balances, activeSwaps,
                   shouldContinue, connected, quoteData, txid, swapStatus,
                   attempts, balancePrompts, refetchTimers, prompted, nSent, lastSent>>

\* ------------------------------------------------------------------------
\* Specifications.  The program is the same in all of them; they differ in
\* the sets the server draws its frames from.
\* ------------------------------------------------------------------------

\* a step of the client that no frame triggers
Local ==
    \/ MainDelay
    \/ SwapTimer
    \/ AnswerRefetch
    \/ AnswerAccept
    \/ PollTimer
    \/ StatusTimer
    \/ AnswerBalancePrompt
    \/ RefetchTimer
    \/ Disconnect

\* Spec: one address, one quote, one accepted txid, swap lists of at most
\* one Swap; the server may answer under any of FrameIds
CoreSnapshots == { b \in Snapshots : DOMAIN b \subseteq {sendAsset} }
CoreQuotes == { q \in Quotes : q.quote_id = 7 }
CoreSwaps == { w \in Swap : w.txid = "abc" \/ w.status = "Mempool" }
CoreSwapLists ==
    { l \in SwapLists : Len(l) <= 1 /\ \A i \in DOMAIN l : l[i] \in CoreSwaps }

Next ==
    \/ Local
    \/ \E b \in CoreSnapshots : RecvBalances(b)
    \/ \E id \in FrameIds : RecvNewAddress(id, "addr1")
    \/ \E id \in FrameIds, q \in CoreQuotes : RecvGetQuote(id, q)
    \/ \E id \in FrameIds : RecvAcceptQuote(id, "abc")
    \/ \E id \in FrameIds, l \in CoreSwapLists : RecvGetSwaps(id, l)
    \/ \E id \in FrameIds, x \in Texts : RecvError(id, x)

Spec == Init /\ [][Next]_vars

\* SpecBalances: every balance snapshot and address, short swap lists;
\* the server answers under the id of the awaited request
NextBalances ==
    \/ Local
    \/ \E b \in Snapshots : RecvBalances(b)
    \/ \E a \in Addresses : RecvNewAddress(awaitId, a)
    \/ \E q \in CoreQuotes : RecvGetQuote(awaitId, q)
    \/ RecvAcceptQuote(awaitId, "abc")
    \/ \E l \in CoreSwapLists : RecvGetSwaps(awaitId, l)
    \/ RecvError(awaitId, QuoteErrorWords)

SpecBalances == Init /\ [][NextBalances]_vars

\* SpecSwaps: every accepted txid and every swap list of Mempool and
\* Confirmed swaps, two balance snapshots; the server answers under the id
\* of the awaited request
SwapsSnapshots == { b \in CoreSnapshots : \A a \in DOMAIN b : b[a] # 0 }
SwapsLists ==
    { l \in SwapLists : \A i \in DOMAIN l : l[i].status # "NotFound" }

NextSwaps ==
    \/ Local
    \/ \E b \in SwapsSnapshots : RecvBalances(b)
    \/ RecvNewAddress(awaitId, "addr1")
    \/ \E q \in CoreQuotes : RecvGetQuote(awaitId, q)
    \/ \E t \in Txids : RecvAcceptQuote(awaitId, t)
    \/ \E l \in SwapsLists : RecvGetSwaps(awaitId, l)
    \/ RecvError(awaitId, QuoteErrorWords)

SpecSwaps == Init /\ [][NextSwaps]_vars

\* SpecQuotes: every quote, otherwise as narrow as Spec; the server answers
\* under the id of the awaited request
NextQuotes ==
    \/ Local
    \/ \E b \in SwapsSnapshots : RecvBalances(b)
    \/ RecvNewAddress(awaitId, "addr1")
    \/ \E q \in Quotes : RecvGetQuote(awaitId, q)
    \/ RecvAcceptQuote(awaitId, "abc")
    \/ \E l \in CoreSwapLists : RecvGetSwaps(awaitId, l)
    \/ RecvError(awaitId, QuoteErrorWords)

SpecQuotes == Init /\ [][NextQuotes]_vars

\* ------------------------------------------------------------------------
\* ws 'message' as a whole: JSON.parse, then handleMessage's key tests
\* ------------------------------------------------------------------------

\* top-level keys and inner tags a frame may carry
Tops == {"Notif", "Resp", "Error", "Req"}
Inners == {"Balances", "NewAddress", "GetQuote", "AcceptQuote", "GetSwaps",
           "Ping"}

\* a dispatch that looks at the inner tag only
Dispatch_ByInner(f) ==
    IF f.inner = "Ping" THEN "return"
    ELSE IF f.inner = "Balances" THEN "handleBalancesNotification"
    ELSE f.inner

\* the handler the frame reaches: "catch" when JSON.parse throws, "return"
\* when no key test of handleMessage/handleResponseMessage matches
Dispatch(f) ==
    IF ~f.json THEN "catch"
    ELSE IF f.top = "Notif"
         THEN IF f.inner = "Balances" THEN "handleBalancesNotification"
              ELSE "return"
    ELSE IF f.top = "Resp"
         THEN IF f.inner \in {"NewAddress", "GetQuote", "AcceptQuote",
                              "GetSwaps"}
              THEN f.inner ELSE "return"
    ELSE IF f.top = "Error" THEN "handleErrorResponse"
    ELSE "return"

\* the frame is logged (or silently skipped) and nothing else happens
Drop ==
    /\ connected
    /\ droppedAt' = pc
    /\ UNCHANGED <<requestId, currentAddress, balances, activeSwaps,
                   shouldContinue, connected, listeners, mainPc, pc,
                   quoteData, txid, swapStatus, attempts, balancePrompts,
                   refetchTimers, prompted, nSent, lastSent, awaitId,
                   answeredId>>

\* ws.on('message', data => { try { handleMessage(JSON.parse(data)) } ... })
HandleMessage(f) ==
    LET h == Dispatch(f)
    IN  \/ h = "handleBalancesNotification" /\ RecvBalances(f.balances)
        \/ h = "NewAddress" /\ RecvNewAddress(f.id, f.address)
        \/ h = "GetQuote" /\ RecvGetQuote(f.id, f.quote)
        \/ h = "AcceptQuote" /\ RecvAcceptQuote(f.id, f.txid)
        \/ h = "GetSwaps" /\ RecvGetSwaps(f.id, f.swaps)
        \/ h = "handleErrorResponse" /\ RecvError(f.id, f.text)
        \/ h \in {"catch", "return"} /\ Drop

\* SpecFrames: the frames of SpecQuotes' kind and, while a request of the
\* workflow is awaited, frames that do not parse or carry keys the client
\* does not know, each with the contents of a complete frame; the server
\* answers under the id of the awaited request
FullSnapshot == [a \in {sendAsset} |-> sendAmount]
OneSwap == <<[txid |-> "abc", status |-> "Confirmed"]>>
Frame(j, t, i, b, l) ==
    [json |-> j, top |-> t, inner |-> i, id |-> awaitId, balances |-> b,
     address |-> "addr1", quote |-> [quote_id |-> 7, ttl |-> 30],
     txid |-> "abc", swaps |-> l, text |-> QuoteErrorWords]
ValidFrames ==
    { Frame(TRUE, "Notif", "Balances", b, OneSwap) :
        b \in {<< >>, FullSnapshot} }
    \cup { Frame(TRUE, "Resp", "GetSwaps", FullSnapshot, l) :
             l \in CoreSwapLists }
    \cup { Frame(TRUE, "Resp", i, FullSnapshot, OneSwap) :
             i \in {"NewAddress", "GetQuote", "AcceptQuote"} }
    \cup { Frame(TRUE, "Error", "Ping", FullSnapshot, OneSwap) }
OddFrames ==
    { Frame(FALSE, "Resp", "GetQuote", FullSnapshot, OneSwap),
      Frame(TRUE, "Req", "NewAddress", FullSnapshot, OneSwap),
      Frame(TRUE, "Notif", "NewAddress", FullSnapshot, OneSwap),
      Frame(TRUE, "Notif", "Ping", FullSnapshot, OneSwap),
      Frame(TRUE, "Resp", "Balances", FullSnapshot, OneSwap),
      Frame(TRUE, "Resp", "Ping", FullSnapshot, OneSwap) }
Frames == ValidFrames \cup (IF awaitId # 0 THEN OddFrames ELSE {})

NextFrames ==
    \/ Local
    \/ \E f \in Frames : HandleMessage(f)

SpecFrames == Init /\ [][NextFrames]_vars

TypeOK ==
    /\ requestId \in Nat
    /\ currentAddress \in Addresses \cup {Null}
    /\ balances \in Snapshots
    /\ shouldContinue \in BOOLEAN
    /\ attempts \in 0..maxAttempts

\* ------------------------------------------------------------------------
\* Claims
\* ------------------------------------------------------------------------

\* C1: the k-th request handed to sendMessage carries id k, whichever
\* function sent it (main, processSwap, the balance refetch, the trailing
\* status check): the first id is 1, each later id is the previous one
\* plus 1, and so no id is sent twice.
C1_IdsSequential ==
    /\ lastSent.id = nSent
    /\ requestId = nSent + 1

\* requests from all four senders have gone out: the workflow polled to
\* exhaustion, a balance refetch was sent, the status check was the last
C1_Witness ==
    /\ pc = "TimedOut"
    /\ mainPc = "finished"
    /\ prompted > 0 /\ balancePrompts = 0 /\ refetchTimers = 0
    /\ lastSent.tag = "GetSwaps"
    /\ nSent = 15

\* a Resp frame under id 'id' of a kind that processSwap listens for
AnyResp(id) ==
    \/ \E q \in Quotes : RecvGetQuote(id, q)
    \/ \E t \in Txids : RecvAcceptQuote(id, t)
    \/ \E l \in SwapLists : RecvGetSwaps(id, l)

\* C2: while processSwap awaits the response to the request it sent with id
\* N, a Resp frame (GetQuote, AcceptQuote or GetSwaps) carrying another id
\* leaves the phase, the accepted txid and the attempt counter unchanged.
C2_OnlyAwaitedIdAdvances ==
    [][ \A id \in FrameIds :
          (awaitId # 0 /\ id # awaitId /\ AnyResp(id))
              => UNCHANGED <<pc, txid, attempts>> ]_vars

\* C3: a Resp frame that carries the id of a request already answered is a
\* no-op: it fulfils no awaiter (it is not taken as the answer to the next
\* request) and changes neither the delivered results nor the counter.
C3_AnsweredIdIsNoOp ==
    [][ \A id \in FrameIds :
          (answeredId # 0 /\ id = answeredId /\ id # awaitId /\ AnyResp(id))
              => UNCHANGED <<pc, quoteData, txid, swapStatus, attempts>> ]_vars

\* C4: every answer to the pending poll whose list lacks the accepted txid
\* (the empty list included) counts as one attempt, and the tenth such
\* answer ends the session in TimedOut; the session never stays waiting
\* for a poll that was answered.
C4_UnseenTxidTimesOut ==
    [][ \A l \in SwapLists :
          (pc = "awaitSwaps" /\ FindSwap(l, txid) = 0
             /\ RecvGetSwaps(awaitId, l))
              => /\ attempts' = attempts + 1
                 /\ pc' = IF attempts + 1 < maxAttempts
                          THEN "pollSleep" ELSE "TimedOut" ]_vars

\* the phases in which processSwap waits for the response to a request
Waiting == {"awaitQuote", "awaitAccept", "awaitSwaps"}

\* C5: an Error frame answering the request the session awaits ends the
\* session in Failed, in each waiting phase (for GetQuote: an Error whose
\* text does not contain 'Quote error').
C5_ErrorForcesFailed ==
    [][ \A x \in Texts :
          (pc \in Waiting
             /\ (pc = "awaitQuote" => ~Includes(x, QuoteErrorWords))
             /\ RecvError(awaitId, x))
              => pc' = "Failed" ]_vars

\* the phases of a session that has started and not ended
InProgress ==
    {"askRefetch", "awaitQuote", "askAccept", "awaitAccept", "pollSleep",
     "awaitSwaps"}

\* C6: when the transport disconnects during a session in progress, the
\* pending request is abandoned and the session goes to Failed.
C6_DisconnectFails ==
    [][ (connected /\ ~connected' /\ pc \in InProgress)
            => (pc' = "Failed" /\ awaitId' = 0) ]_vars

\* C8: an Error frame carrying another id than the outstanding GetQuote
\* request neither fulfils nor consumes the awaiter of that request.
C8_ErrorOnlyToItsAwaiter ==
    [][ \A id \in FrameIds, x \in Texts :
          (pc = "awaitQuote" /\ "error_response" \in listeners
             /\ id # awaitId /\ RecvError(id, x))
              => (pc' = "awaitQuote" /\ "error_response" \in listeners') ]_vars

\* C10: while the GetQuote response is awaited, an Error frame for that
\* request whose text contains 'Quote error' moves the session to Failed,
\* and a Failed session stays Failed and sends no AcceptQuote or poll.
C10_QuoteErrorFails ==
    [][ /\ \A x \in Texts :
             (pc = "awaitQuote" /\ Includes(x, QuoteErrorWords)
                /\ RecvError(awaitId, x))
                 => pc' = "Failed"
        /\ pc = "Failed"
             => (pc' = "Failed" /\ awaitId' = 0
                   /\ lastSent'.tag # "AcceptQuote") ]_vars

\* the stored balance of the send asset is below the amount to send
Insufficient ==
    \/ sendAsset \notin DOMAIN balances
    \/ balances[sendAsset] < sendAmount

\* processSwap is entered (the 5 s timer of main fires with shouldContinue)
StartsWorkflow ==
    mainPc = "swapTimer" /\ mainPc' # "swapTimer" /\ shouldContinue

\* the session ended in Rejected because the caller declined the refetch
DeclinedRefetch == pc = "Rejected" /\ quoteData = NoQuote

\* C7 as stated: with an address known and the balance insufficient at
\* workflow start, no GetQuote is sent and the caller is asked; if the
\* caller declines, the session ends in Rejected and no request of any kind
\* is sent afterwards.
C7_NoRequestAfterDecline ==
    [][ /\ (StartsWorkflow /\ currentAddress # Null /\ Insufficient)
              => (pc' = "askRefetch" /\ nSent' = nSent)
        /\ (pc = "askRefetch" /\ pc' # pc /\ nSent' = nSent)
              => pc' = "Rejected"
        /\ DeclinedRefetch => (pc' = pc /\ nSent' = nSent) ]_vars

\* C7 (amended): with an address known and the balance insufficient at
\* workflow start, no GetQuote is sent and the caller is asked; if the
\* caller declines, the session ends in Rejected and stays there, and the
\* only request that can still be sent is the NewAddress of a balance
\* refetch timer (no GetQuote, AcceptQuote or GetSwaps, the trailing
\* status check included).
C7_OnlyRefetchAfterDecline ==
    [][ /\ (StartsWorkflow /\ currentAddress # Null /\ Insufficient)
              => (pc' = "askRefetch" /\ nSent' = nSent)
        /\ (pc = "askRefetch" /\ pc' # pc /\ nSent' = nSent)
              => (pc' = "Rejected" /\ ~shouldContinue')
        /\ DeclinedRefetch
              => /\ pc' = pc /\ awaitId' = 0
                 /\ nSent' # nSent
                      => /\ lastSent'.tag = "NewAddress"
                         /\ refetchTimers' = refetchTimers - 1 ]_vars

\* the caller declined, the status check was skipped, and a refetch that
\* the caller had agreed to in the balance prompt went out
C7_Witness ==
    /\ DeclinedRefetch
    /\ mainPc = "finished"
    /\ nSent = 2
    /\ lastSent.tag = "NewAddress"
    /\ Insufficient /\ DOMAIN balances # {}

\* the list holds a Swap with txid t and status Confirmed
HasConfirmed(l, t) ==
    \E i \in DOMAIN l : l[i].txid = t /\ l[i].status = "Confirmed"

\* the first Swap of the list with txid t has status Confirmed
FirstIsConfirmed(l, t) ==
    \E i \in DOMAIN l :
        /\ l[i].txid = t /\ l[i].status = "Confirmed"
        /\ \A j \in 1..(i - 1) : l[j].txid # t

\* C9 as stated: the session becomes Confirmed only on a GetSwaps response,
\* received while a poll is awaited, that holds a Swap with the accepted
\* txid and status Confirmed; every such response that answers the poll
\* makes it Confirmed at once; a Confirmed session polls no more.
C9_ConfirmedIffListed ==
    [][ /\ (pc # "Confirmed" /\ pc' = "Confirmed")
              => /\ pc = "awaitSwaps"
                 /\ \E l \in SwapsLists :
                        HasConfirmed(l, txid) /\ RecvGetSwaps(awaitId, l)
        /\ (pc = "awaitSwaps" /\ pc' # "Confirmed")
              => \A l \in SwapsLists :
                    HasConfirmed(l, txid) => ~RecvGetSwaps(awaitId, l)
        /\ pc = "Confirmed" => (pc' = pc /\ awaitId' = 0) ]_vars

\* C9 (amended): as C9, for the first Swap of the list that carries the
\* accepted txid: the session becomes Confirmed exactly when that Swap has
\* status Confirmed.
C9_ConfirmedIffFirstListed ==
    [][ /\ (pc # "Confirmed" /\ pc' = "Confirmed")
              => /\ pc = "awaitSwaps"
                 /\ \E l \in SwapsLists :
                        FirstIsConfirmed(l, txid) /\ RecvGetSwaps(awaitId, l)
        /\ (pc = "awaitSwaps" /\ pc' # "Confirmed")
              => \A l \in SwapsLists :
                    FirstIsConfirmed(l, txid) => ~RecvGetSwaps(awaitId, l)
        /\ pc = "Confirmed" => (pc' = pc /\ awaitId' = 0) ]_vars

\* the session was confirmed on a later attempt, with another swap known
C9_Witness ==
    /\ pc = "Confirmed"
    /\ attempts > 0
    /\ txid \in DOMAIN activeSwaps
    /\ activeSwaps[txid].status = "Confirmed"
    /\ DOMAIN activeSwaps = Txids

\* a request goes out in this step
Sends(tag) == nSent' # nSent /\ lastSent'.tag = tag

\* C11: the quote kept by the session is the quote_id of the GetQuote
\* response that was delivered while the response was awaited, and it never
\* changes afterwards; AcceptQuote is sent only from the acceptance prompt
\* (so after that delivery and the caller's yes) with exactly that quote_id;
\* leaving the prompt without sending is Rejected, and a Rejected session
\* sends no AcceptQuote.
C11_AcceptsDeliveredQuote ==
    [][ /\ \A q \in Quotes :
              (pc = "awaitQuote" /\ RecvGetQuote(awaitId, q))
                  => (pc' = "askAccept" /\ quoteData'.id = q.quote_id)
        /\ quoteData' # quoteData => (pc = "awaitQuote" /\ pc' = "askAccept")
        /\ Sends("AcceptQuote")
              => /\ pc = "askAccept" /\ pc' = "awaitAccept"
                 /\ quoteData # NoQuote
                 /\ lastSent'.arg = quoteData.id
        /\ (pc = "askAccept" /\ pc' # pc /\ nSent' = nSent)
              => pc' = "Rejected"
        /\ pc = "Rejected" => (pc' = pc /\ ~Sends("AcceptQuote")) ]_vars

\* the second quote was delivered and accepted: AcceptQuote{quote_id: 8}
C11_Witness ==
    /\ pc = "awaitAccept"
    /\ quoteData.id = 8
    /\ lastSent = [id |-> 3, tag |-> "AcceptQuote", arg |-> 8]

\* C12: GetQuote is sent only when an address received from a NewAddress
\* response is stored and the stored snapshot holds at least sendAmount of
\* sendAsset; its receive_address is the address stored at that moment.
C12_QuoteNeedsAddressAndBalance ==
    [][ Sends("GetQuote")
            => /\ currentAddress \in Addresses
               /\ sendAsset \in DOMAIN balances
               /\ balances[sendAsset] >= sendAmount
               /\ lastSent'.arg = currentAddress
               /\ pc = "notStarted" /\ pc' = "awaitQuote" ]_vars

\* GetQuote went out for the second address; the stored address and the
\* snapshot changed afterwards
C12_Witness ==
    /\ pc = "awaitQuote"
    /\ lastSent.tag = "GetQuote" /\ lastSent.arg = "addr2"
    /\ currentAddress = "addr1"
    /\ Insufficient

\* the phase PollingConfirmation: the poll timer runs or a poll is awaited
Polling == {"pollSleep", "awaitSwaps"}

\* C13: once the cancellation flag is down (shouldContinue = false) during
\* PollingConfirmation, the session sends no further GetSwaps and no poll
\* timer stays or becomes pending.
C13_AbortStopsPolling ==
    [][ (~shouldContinue /\ pc \in Polling)
            => (~Sends("GetSwaps") /\ pc' # "pollSleep") ]_vars

\* malformed JSON, or an unrecognised top-level key, or an inner tag that
\* the top-level key does not know
Bad(f) ==
    \/ ~f.json
    \/ f.top \notin {"Notif", "Resp", "Error"}
    \/ f.top = "Notif" /\ f.inner # "Balances"
    \/ f.top = "Resp" /\ f.inner \notin {"NewAddress", "GetQuote",
                                         "AcceptQuote", "GetSwaps"}

\* what a step that handles the valid frame f always brings about
HandledAsAlways(f) ==
    /\ f.top = "Notif" => balances' = f.balances
    /\ (f.top = "Resp" /\ f.inner = "NewAddress")
          => currentAddress' = f.address
    /\ (f.top = "Resp" /\ f.inner = "GetQuote" /\ pc = "awaitQuote")
          => (pc' = "askAccept" /\ quoteData'.id = f.quote.quote_id)
    /\ (f.top = "Resp" /\ f.inner = "AcceptQuote" /\ pc = "awaitAccept")
          => (pc' = "pollSleep" /\ txid' = f.txid)

\* C14: the message handler discards a frame that is malformed JSON or has
\* an unrecognised top-level or inner discriminant: address, balances, swap
\* table, id counter, phase, listeners and the open socket stay as they
\* were; a valid frame that arrives after a discarded one is handled as
\* always (a notification replaces the balances, a NewAddress response the
\* address, the awaited quote and accept responses advance the workflow).
C14_BadFrameDropped ==
    [][ /\ (program' # program \/ requestId' # requestId)
              => \A f \in Frames : Bad(f) => ~HandleMessage(f)
        /\ droppedAt # Null
              => \A f \in Frames :
                    (~Bad(f) /\ ~HandledAsAlways(f)) => ~HandleMessage(f)
      ]_vars

\* a frame was discarded while the quote was awaited; the quote, the accept
\* and the swaps responses that followed took the workflow to Confirmed
C14_Witness ==
    /\ droppedAt = "awaitQuote"
    /\ pc = "Confirmed"
    /\ txid = "abc" /\ quoteData.id = 7
    /\ "abc" \in DOMAIN activeSwaps

\* C15: the stored snapshot is exactly the mapping of the latest Balances
\* notification and changes through nothing else: an asset the latest
\* notification does not list has no stored balance, whatever an earlier
\* one said, and fails the sufficiency test for any positive amount.
C15_SnapshotIsLatest ==
    [][ /\ \A b \in Snapshots :
              RecvBalances(b)
                  => /\ balances' = b
                     /\ \A a \in Assets \ DOMAIN b :
                           /\ a \notin DOMAIN balances'
                           /\ ~(hasBalanceForAsset(a, 1))'
        /\ balances' # balances
              => \E b \in Snapshots : balances' = b /\ RecvBalances(b) ]_vars

\* the quote was requested when the send asset sufficed; the latest
\* notification lists only the other asset, and the send asset is gone
C15_Witness ==
    /\ pc = "awaitQuote"
    /\ balances = [a \in {recvAsset} |-> MaxAmount]
    /\ ~hasBalanceForAsset(sendAsset, sendAmount)

\* C16: a Balances notification that arrives while processSwap awaits a
\* response replaces the snapshot and leaves the awaiter, the phase, the
\* quote, the txid, the attempt counter, the address, the swap table and
\* the id counter alone; the awaited response that arrives after such a
\* notification (the snapshot no longer suffices, so one did arrive since
\* the quote was requested) advances the workflow as it would have.
C16_NotificationTolerated ==
    [][ /\ (pc \in Waiting
              /\ ~UNCHANGED <<listeners, awaitId, answeredId, pc, mainPc,
                              quoteData, txid, swapStatus, attempts,
                              currentAddress, activeSwaps, requestId,
                              nSent>>)
              => \A b \in Snapshots : ~RecvBalances(b)
        /\ pc \in Waiting
              => \A b \in Snapshots : balances' # b => ~RecvBalances(b)
        /\ (pc = "awaitQuote" /\ Insufficient)
              => \A q \in CoreQuotes :
                    (pc' = "askAccept" /\ quoteData' = QuoteData(q))
                        \/ ~RecvGetQuote(awaitId, q)
        /\ (pc = "awaitAccept" /\ Insufficient)
              => \/ pc' = "pollSleep" /\ txid' = "abc"
                 \/ ~RecvAcceptQuote(awaitId, "abc")
        /\ (pc = "awaitSwaps" /\ Insufficient)
              => \/ pc' \in {"pollSleep", "Confirmed", "TimedOut"}
                       /\ awaitId' = 0
                 \/ \A l \in CoreSwapLists :
                       l # << >> => ~RecvGetSwaps(awaitId, l) ]_vars

\* the quote request is out and unanswered, its listener still registered;
\* an empty notification has replaced the snapshot that sufficed and has
\* opened its prompt
C16_Witness ==
    /\ pc = "awaitQuote"
    /\ "quote_response" \in listeners
    /\ awaitId = lastSent.id /\ answeredId # awaitId
    /\ balances = << >>
    /\ balancePrompts = 1

\* the response l mentions txid t
Mentions(l, t) == \E i \in DOMAIN l : l[i].txid = t

\* the swap table after the response l: a txid that l mentions holds one of
\* the records l gives for it, any other txid is as it was
TableAfter(l) ==
    \A t \in Txids :
        IF Mentions(l, t)
        THEN /\ t \in DOMAIN activeSwaps'
             /\ \E i \in DOMAIN l : l[i] = activeSwaps'[t]
        ELSE /\ t \in DOMAIN activeSwaps' <=> t \in DOMAIN activeSwaps
             /\ t \in DOMAIN activeSwaps => activeSwaps'[t] = activeSwaps[t]

\* C17: every entry of the swap table sits under its own txid; a GetSwaps
\* response with a non-empty list leaves, for each txid it mentions, a whole
\* record of that response in the table and touches no other entry; an
\* empty response and every other step leave the table as it was.
C17_TableHoldsLatest ==
    [][ /\ \A t \in DOMAIN activeSwaps' : activeSwaps'[t].txid = t
        /\ \A l \in SwapsLists :
              ~TableAfter(l) => ~RecvGetSwaps(awaitId, l)
        /\ activeSwaps' # activeSwaps
              => \E l \in SwapsLists :
                    l # << >> /\ RecvGetSwaps(awaitId, l) ]_vars

\* two non-empty responses were taken in (the first did not confirm, the
\* second did); the table holds the confirmed record of the accepted txid
\* and the record of the other txid
C17_Witness ==
    /\ pc = "Confirmed" /\ attempts = 1 /\ txid = "abc"
    /\ DOMAIN activeSwaps = Txids
    /\ activeSwaps["abc"] = [txid |-> "abc", status |-> "Confirmed"]
    /\ activeSwaps["xyz"] = [txid |-> "xyz", status |-> "Mempool"]

\* C18: the polling loop sends at most 10 GetSwaps (the k-th goes out with
\* k - 1 attempts counted), none before the AcceptQuote response gave the
\* txid, none while a poll is awaited, and a poll that follows another poll
\* goes out only after the server answered the earlier one under its id.
C18_BoundedPolling ==
    [][ (pc \in Polling /\ Sends("GetSwaps"))
            => /\ attempts < maxAttempts
               /\ txid # Null
               /\ "accept_quote_response" \notin listeners
               /\ pc = "pollSleep"
               /\ lastSent.tag = "GetSwaps" => answeredId = lastSent.id
      ]_vars

\* the once-listener that processSwap registers for the response it awaits
ListenerOf(phase) ==
    CASE phase = "awaitQuote" -> "quote_response"
      [] phase = "awaitAccept" -> "accept_quote_response"
      [] phase = "awaitSwaps" -> "swaps_response"

\* C19: when GetQuote, AcceptQuote or a polling GetSwaps goes out, the
\* once-listener for its response is registered by the end of the same
\* handler run, before any frame can be handled; it stays registered for as
\* long as the response is awaited, so a response that arrives under the
\* request's id is delivered to processSwap, which moves on (no step that
\* leaves processSwap waiting is the arrival of such a response).
C19_ListenerBeforeSend ==
    [][ /\ Sends("GetQuote") => "quote_response" \in listeners'
        /\ Sends("AcceptQuote") => "accept_quote_response" \in listeners'
        /\ (Sends("GetSwaps") /\ pc \in Polling)
              => "swaps_response" \in listeners'
        /\ pc' \in Waiting => ListenerOf(pc') \in listeners'
        /\ (pc = "awaitQuote" /\ pc' # "askAccept")
              => \A q \in CoreQuotes : ~RecvGetQuote(awaitId, q)
        /\ (pc = "awaitAccept" /\ pc' # "pollSleep")
              => ~RecvAcceptQuote(awaitId, "abc")
        /\ (pc = "awaitSwaps" /\ pc' = "awaitSwaps")
              => \A l \in CoreSwapLists :
                    l # << >> => ~RecvGetSwaps(awaitId, l) ]_vars

\* the second poll is out and awaited with its listener registered; the
\* quote, the accept and the first poll were each delivered before it
C19_Witness ==
    /\ pc = "awaitSwaps" /\ attempts = 1
    /\ "swaps_response" \in listeners
    /\ lastSent.tag = "GetSwaps" /\ awaitId = lastSent.id
    /\ quoteData # NoQuote /\ txid = "abc"

\* C20: the refetch prompt is reached only from the start of the workflow,
\* with an address known and the balance insufficient; answering it with
\* yes sends exactly one request, a NewAddress, and ends the run
\* (Refetched); from then on the workflow stays ended whatever address or
\* balance arrives: no GetQuote and no AcceptQuote is sent, a GetSwaps only
\* by main's trailing status check, a NewAddress only by the refetch timer
\* of the balance handler.
C20_RefetchEndsRun ==
    [][ /\ (pc' = "askRefetch" /\ pc # "askRefetch")
              => /\ pc = "notStarted" /\ StartsWorkflow
                 /\ currentAddress # Null /\ Insufficient
                 /\ nSent' = nSent
        /\ (pc = "askRefetch" /\ pc' # pc)
              => \/ /\ pc' = "Refetched"
                    /\ Sends("NewAddress") /\ nSent' = nSent + 1
                    /\ shouldContinue' = shouldContinue
                 \/ /\ pc' = "Rejected"
                    /\ nSent' = nSent /\ ~shouldContinue'
        /\ pc = "Refetched"
              => /\ pc' = "Refetched"
                 /\ UNCHANGED <<listeners, quoteData, txid, attempts>>
                 /\ ~Sends("GetQuote") /\ ~Sends("AcceptQuote")
                 /\ Sends("GetSwaps")
                       => (mainPc = "statusTimer" /\ mainPc' = "finished")
                 /\ Sends("NewAddress") => refetchTimers' < refetchTimers
      ]_vars

\* the run ended in the refetch branch; the refreshed address and a
\* sufficient balance have arrived since, the trailing status check was the
\* third and last request, and the workflow has not started again
C20_Witness ==
    /\ pc = "Refetched" /\ mainPc = "finished"
    /\ currentAddress = "addr2"
    /\ ~Insufficient
    /\ nSent = 3 /\ lastSent.tag = "GetSwaps"
    /\ quoteData = NoQuote /\ txid = Null

====
